---- MODULE Spec2Model ----
(***************************************************************************)
(* Round orchestration and resolution engine of lycanthrope                *)
(* (src/src/lycanthrope/game.py): roster, dealer, dawn/night phase         *)
(* scheduler, role swaps, vote collection, victory walker, game().         *)
(*                                                                         *)
(* Python dicts are functions; where the code depends on a dict's          *)
(* iteration order the dict is a sequence of <<key, value>> pairs.         *)
(* None is the string "None".  Message delivery (notify_player) changes no *)
(* engine state and is not modelled as a task; the channel broadcasts of   *)
(* collect_votes are recorded in notice.                                   *)
(***************************************************************************)
EXTENDS Integers, Sequences, FiniteSets, TLC

VARIABLES
    players,        \* Game.players: list of nicks, the three center slots first
    scenario,       \* Game.scenario: name of the active scenario
    max_role_nb,    \* Game.max_role_nb: role caps set by set_scenario
    selected_roles, \* local of deal_roles: what the dealer returned last
    initial_roles,  \* Game.initial_roles
    current_roles,  \* Game.current_roles
    dealt_roles,    \* Game.dealt_roles
    tokens,         \* Game.tokens
    votes,          \* Game.votes
    dead,           \* Game.dead
    tasks,          \* Game.tasks: launched role / ballot tasks, in launch order
    role_swaps,     \* Game.role_swaps
    token_swaps,    \* Game.token_swaps
    in_progress,    \* Game.in_progress
    victories,      \* Game.victories
    pc,             \* position of the running game() coroutine
    run,            \* collect_votes: index of the current timeout slice
    choice,         \* collect_votes: candidates of the runoff
    ending,         \* game() calls past victory(): their local winner lists
    ni,             \* night: index of the next role of the loop
    rounds,         \* number of rounds played to the end so far
    notice          \* channel broadcasts of the latest step of collect_votes

vars == <<players, scenario, max_role_nb, selected_roles, initial_roles,
          current_roles, dealt_roles, tokens, votes, dead, tasks, role_swaps,
          token_swaps, in_progress, victories, pc, run, choice, ending, ni,
          rounds, notice>>

(***************************************************************************)
(* Bounds of the model                                                     *)
(***************************************************************************)
\* rounds that may be played to the end (caps the victories counters)
MaxRounds == 1
\* random.shuffle is any rotation of the list by 0..MaxRot places
MaxRot == 1
\* a voter answers with one of the first MaxTargets real players
MaxTargets == 2
\* a player asked for a center card answers with one of the first MaxCards
MaxCards == 1

\* nicknames the transport may register
Nicks == <<"a", "b", "c", "d">>
NickSet == {Nicks[i] : i \in 1..Len(Nicks)}
\* nicknames the transport asks to remove
Leavers == {Nicks[Len(Nicks)]}

(***************************************************************************)
(* Generic helpers                                                         *)
(***************************************************************************)
None == "None"
Min(a, b) == IF a < b THEN a ELSE b
Range(s) == {s[i] : i \in 1..Len(s)}
Take(s, n) == SubSeq(s, 1, Min(n, Len(s)))
Drop(s, n) == SubSeq(s, Min(n, Len(s)) + 1, Len(s))
EmptyDict == <<>>
\* dict.get(key, default)
Get(d, key, default) == IF key \in DOMAIN d THEN d[key] ELSE default
RECURSIVE Repeat(_, _)
Repeat(x, n) == IF n <= 0 THEN <<>> ELSE <<x>> \o Repeat(x, n - 1)
RECURSIVE SumSeq(_)
SumSeq(s) == IF s = <<>> THEN 0 ELSE Head(s) + SumSeq(Tail(s))
\* sum(d.values()) of an ordered dict of numbers
SumValues(od) == SumSeq([i \in 1..Len(od) |-> od[i][2]])
\* value of key in an ordered dict, 0 when absent
CapOf(od, key) ==
    IF \E i \in 1..Len(od) : od[i][1] = key
    THEN od[CHOOSE i \in 1..Len(od) : od[i][1] = key][2]
    ELSE 0

\* random.shuffle(s): the orders the model lets the generator produce
Rot(s, k) == [i \in 1..Len(s) |-> s[((i - 1 + k) % Len(s)) + 1]]
shuffle(s) == IF s = <<>> THEN {s} ELSE {Rot(s, k) : k \in 0..Min(MaxRot, Len(s) - 1)}

(***************************************************************************)
(* Configuration loaded at construction (roles-scenario.yaml)              *)
(***************************************************************************)
\* Game._initial_tokens
initial_tokens ==
    [k \in {"assassin", "chauve-souris", "peur", "peste", "vampire", "traitre",
            "clarté 0", "clarté 1", "amour 0", "amour 1"} |->
        CASE k \in {"clarté 0", "clarté 1"} -> "clarté"
          [] k \in {"amour 0", "amour 1"} -> "amour"
          [] OTHER -> k]

\* Game.available_roles: the catalog, name -> description, in file order
available_roles == <<
    <<"assassin",    EmptyDict>>,
    <<"cupidon",     EmptyDict>>,
    <<"garde du corps", EmptyDict>>,
    <<"insomniaque", ("order" :> "9" @@ "synchro" :> "1")>>,
    <<"loup garou",  ("order" :> "2" @@ "group" :> "loups garous")>>,
    <<"soulard",     ("order" :> "8")>>,
    <<"tanneur",     ("group" :> "tanneur")>>,
    <<"villageois",  EmptyDict>>,
    <<"voleur",      ("order" :> "6")>>,
    <<"voyante",     ("order" :> "5")>> >>

\* role caps of scenario Classique, in file order
ClassiqueMaxNb == <<
    <<"villageois", 3>>, <<"loup garou", 2>>, <<"voleur", 1>>,
    <<"insomniaque", 1>>, <<"soulard", 1>>, <<"tanneur", 1>>,
    <<"voyante", 1>> >>

\* the fixed role list of scenario Aube, in file order
AubeRoles == <<"loup garou", "villageois", "villageois", "assassin", "cupidon",
               "garde du corps", "voyante", "voyante">>

\* the fixed role list of scenario Première nuit, in file order
NuitRoles == <<"loup garou", "villageois", "voyante", "tanneur", "voleur",
               "loup garou", "villageois", "villageois">>

\* Counter(roles): role -> occurrences, in the order of first occurrence
RoleCounter(r) ==
    LET firsts == SelectSeq([i \in 1..Len(r) |-> i],
                            LAMBDA i : \A j \in 1..(i - 1) : r[j] # r[i])
    IN  [n \in 1..Len(firsts) |->
            <<r[firsts[n]], Cardinality({j \in 1..Len(r) : r[j] = r[firsts[n]]})>>]

\* max_dict(dicts): every key with the largest value any dict gives it
RECURSIVE KeysOf(_)
KeysOf(dicts) ==
    IF dicts = <<>> THEN <<>>
    ELSE [i \in 1..Len(Head(dicts)) |-> Head(dicts)[i][1]] \o KeysOf(Tail(dicts))
max_dict(dicts) ==
    LET keys == KeysOf(dicts)
        firsts == SelectSeq([i \in 1..Len(keys) |-> i],
                            LAMBDA i : \A j \in 1..(i - 1) : keys[j] # keys[i])
    IN  [n \in 1..Len(firsts) |->
            <<keys[firsts[n]],
              CHOOSE v \in {CapOf(dicts[d], keys[firsts[n]]) : d \in 1..Len(dicts)} :
                 \A d \in 1..Len(dicts) : CapOf(dicts[d], keys[firsts[n]]) <= v>>]

\* total_max_role_nb: the max_nb tables, then the Counters of the role lists
overall_max_nb ==
    max_dict(<<ClassiqueMaxNb, RoleCounter(AubeRoles), RoleCounter(NuitRoles)>>)

\* Game.scenario_dict as filled by add_scenarii
scenario_dict ==
    ("Classique" :> ("max_nb" :> ClassiqueMaxNb @@ "max_player" :> 3
                     @@ "family" :> "loups-garous contre village")
     @@ "Aube" :> ("roles" :> AubeRoles @@ "max_player" :> 3
                   @@ "family" :> "loups-garous contre village")
     @@ "Première nuit" :> ("roles" :> NuitRoles @@ "max_player" :> 3
                            @@ "family" :> "loups-garous contre village")
     @@ "Anarchie" :> ("all_roles" :> overall_max_nb
                       @@ "family" :> "bataille épique"))

(***************************************************************************)
(* Dealer (get_dealer / dealer_func) and Game.deal_roles                   *)
(***************************************************************************)
\* an exception leaving the function
Raise == [err |-> TRUE, roles |-> <<>>]
Return(r) == [err |-> FALSE, roles |-> r]

\* get_dealer(**params): the keyword defaults bound into dealer_func
get_dealer(params) ==
    [mandatory   |-> Get(params, "mandatory", <<"loup garou", "voyante">>),
     max_nb      |-> Get(params, "max_nb", <<>>),
     roles       |-> Get(params, "roles", <<>>),
     max_players |-> Get(params, "max_players", 19),
     min_players |-> Get(params, "min_players", 3),
     all_roles   |-> Get(params, "all_roles", <<>>)]

\* role.extend([name] * nb) for every (name, nb) of max_nb
RECURSIVE PossibleRoles(_)
PossibleRoles(max_nb) ==
    IF max_nb = <<>> THEN <<>>
    ELSE Repeat(Head(max_nb)[1], Head(max_nb)[2]) \o PossibleRoles(Tail(max_nb))

\* one step of the mandatory loop: role[i] = name when name is not in role
\* (i counts from 1 here, from 0 in the code)
ForceOneSkipsTest(role, mandatory, i) == [role EXCEPT ![i] = mandatory[i]]
ForceOne(role, mandatory, i) ==
    IF mandatory[i] \in Range(role) THEN role
    ELSE [role EXCEPT ![i] = mandatory[i]]

RECURSIVE ForceMandatory(_, _, _)
ForceMandatory(role, mandatory, i) ==
    IF i > Len(mandatory) THEN role
    ELSE ForceMandatory(ForceOne(role, mandatory, i), mandatory, i + 1)

\* dealer_func(nb_roles, ...): every list it may return, or Raise
dealer_func(nb_roles, d) ==
    IF nb_roles < d.min_players + 3 \/ nb_roles > d.max_players + 3
    THEN {Raise}
    ELSE IF d.roles # <<>>
    THEN {Return(Take(r, 3 + nb_roles)) : r \in shuffle(d.roles)}
    ELSE LET max_nb == IF d.max_nb = <<>> THEN d.all_roles ELSE d.max_nb
             role == Take(PossibleRoles(max_nb), 3 + nb_roles)
         IN  UNION { {Return(r2) : r2 \in shuffle(ForceMandatory(r1, d.mandatory, 1))}
                     : r1 \in shuffle(role) }

\* dict(zip(keys, values))
Zip(keys, values) ==
    LET n == Min(Len(keys), Len(values))
    IN  [k \in {keys[i] : i \in 1..n} |->
            values[CHOOSE i \in 1..n : keys[i] = k /\ \A j \in (i + 1)..n : keys[j] # k]]

\* Game.deal_roles: every outcome, as the dealer's list and the dealt dict,
\* or Raise
deal_roles(pl, sc) ==
    LET roles == Len(pl)
        scenar_constr == scenario_dict[sc]
    IN  IF \/ roles - 3 < Get(scenar_constr, "min_player", 3)
           \/ roles - 3 > Get(scenar_constr, "max_player", 19)
        THEN {[err |-> TRUE, selected |-> <<>>, initial |-> EmptyDict]}
        ELSE UNION {
               IF o.err
               THEN {[err |-> TRUE, selected |-> <<>>, initial |-> EmptyDict]}
               ELSE {[err |-> FALSE, selected |-> s, initial |-> Zip(pl, s)]
                        : s \in shuffle(o.roles)}
               : o \in dealer_func(roles, get_dealer(scenar_constr)) }

\* the token updates at the end of deal_roles
DealTokens(tk, pl) ==
    [k \in DOMAIN tk \cup Range(pl) \cup DOMAIN initial_tokens |->
        IF k \in DOMAIN initial_tokens THEN initial_tokens[k]
        ELSE IF k \in Range(pl) THEN "clareté"
        ELSE tk[k]]

(***************************************************************************)
(* Initial state: Game.__init__                                            *)
(***************************************************************************)
\* Game.set_scenario: the caps of a scenario
ScenarioCaps(sc) ==
    IF "roles" \in DOMAIN scenario_dict[sc]
    THEN RoleCounter(scenario_dict[sc]["roles"])
    ELSE IF "max_nb" \in DOMAIN scenario_dict[sc]
    THEN scenario_dict[sc]["max_nb"]
    ELSE overall_max_nb

Init ==
    /\ players = <<"0", "1", "2">>
    /\ scenario = "Classique"
    /\ max_role_nb = ScenarioCaps("Classique")
    /\ selected_roles = <<>>
    /\ initial_roles = EmptyDict
    /\ current_roles = EmptyDict
    /\ dealt_roles = {}
    /\ tokens = initial_tokens
    /\ votes = EmptyDict
    /\ dead = {}
    /\ tasks = <<>>
    /\ role_swaps = <<>>
    /\ token_swaps = <<>>
    /\ in_progress = FALSE
    /\ victories = EmptyDict
    /\ pc = "idle"
    /\ run = 0
    /\ choice = {}
    /\ ending = <<>>
    /\ ni = 0
    /\ rounds = 0
    /\ notice = <<>>

(***************************************************************************)
(* Roster: Game.add_player, Game.remove_player                             *)
(***************************************************************************)
roster == <<players, tokens>>
roles_state == <<selected_roles, initial_roles, current_roles, dealt_roles>>
round_state == <<votes, dead, tasks, role_swaps, token_swaps, in_progress,
                 victories, pc, run, choice, ending, ni, rounds, notice>>

\* nicknames are interchangeable: a new nickname is the first unused one
NewNick(n) == \A i \in 1..Len(Nicks) :
                 (Nicks[i] \notin DOMAIN tokens /\ \A j \in 1..(i - 1) : Nicks[j] \in DOMAIN tokens)
                 => (n = Nicks[i] \/ n \in DOMAIN tokens)

add_player(nick) ==
    /\ IF Len(players) >= SumValues(max_role_nb)
       THEN UNCHANGED roster                    \* RuntimeWarning
       ELSE IF nick \in DOMAIN tokens
       THEN UNCHANGED roster                    \* ValueError
       ELSE /\ players' = Append(players, nick)
            /\ tokens' = (nick :> "clarté") @@ tokens
    /\ UNCHANGED <<scenario, max_role_nb, roles_state, round_state>>

\* list.remove(x): the list without its first x
RemoveFirst(s, x) ==
    LET i == CHOOSE k \in 1..Len(s) : s[k] = x /\ \A j \in 1..(k - 1) : s[j] # x
    IN  SubSeq(s, 1, i - 1) \o SubSeq(s, i + 1, Len(s))

\* remove_player's test of self.in_progress: whether the call is refused
remove_refused_never(busy) == FALSE
remove_refused(busy) == busy

remove_player(nick) ==
    /\ IF remove_refused(in_progress)
       THEN UNCHANGED players                   \* RuntimeError
       ELSE IF nick \in Range(players)
       THEN players' = RemoveFirst(players, nick)
       ELSE UNCHANGED players
    /\ UNCHANGED <<tokens, scenario, max_role_nb, roles_state, round_state>>

(***************************************************************************)
(* Tasks (Game._fire_and_forget, Game.clean_up) and lookups                *)
(***************************************************************************)
\* a launched task; before and queued record what held when it was launched:
\* the number of unsettled tasks launched earlier and the length of role_swaps
Task(kind, name, phase, synchro, st, before, queued) ==
    [kind |-> kind, name |-> name, phase |-> phase, synchro |-> synchro,
     st |-> st, before |-> before, queued |-> queued]

\* (a task is "asked" between two answers of its player)
Pending(tk) == SelectSeq(tk, LAMBDA t : t.st \in {"pending", "asked"})
\* what Game.clean_up waits for: every task of self.tasks has settled
AllSettledAlways(tk) == TRUE
AllSettled(tk) == Pending(tk) = <<>>
\* asyncio.wait hands back the settled tasks and raises nothing: the exception
\* of a failed task stays in the task, nobody asks for its result
clean_up_reraises(tk) == \E i \in 1..Len(tk) : tk[i].st = "failed"
clean_up_raises(tk) == FALSE

\* Game._get_player_nick: the matching nicks when there are one or two,
\* nothing (None) otherwise
get_player_nick(roles, cur_roles, check_afraid) ==
    LET player == SelectSeq(players, LAMBDA nick :
                      /\ nick \in DOMAIN cur_roles
                      /\ cur_roles[nick] \in roles
                      /\ nick \notin {"0", "1", "2"}
                      /\ (~check_afraid \/ Get(tokens, nick, "clareté") # "peur"))
    IN  IF Len(player) = 2 \/ Len(player) = 1 THEN player ELSE <<>>

\* str() of the keys the catalog uses, as character codes, and their order
StrCodes == ("100" :> <<49, 48, 48>> @@ "1" :> <<49>> @@ "2" :> <<50>>
             @@ "5" :> <<53>> @@ "6" :> <<54>> @@ "8" :> <<56>> @@ "9" :> <<57>>
             @@ "-1" :> <<45, 49>> @@ "-4" :> <<45, 52>>)
RECURSIVE LexLess(_, _)
LexLess(a, b) ==
    IF b = <<>> THEN FALSE
    ELSE IF a = <<>> THEN TRUE
    ELSE IF Head(a) # Head(b) THEN Head(a) < Head(b)
    ELSE LexLess(Tail(a), Tail(b))
StrLess(a, b) == LexLess(StrCodes[a], StrCodes[b])

\* list.sort(key=...): the sort is stable, so the item of position i moves
\* behind the items with a smaller key and the earlier items with its key
\* (keys[i] is the key of s[i])
SortBy(s, keys) ==
    LET Rank(i) == Cardinality({j \in 1..Len(s) :
                       \/ StrLess(keys[j], keys[i])
                       \/ (keys[j] = keys[i] /\ j <= i)})
    IN  [p \in 1..Len(s) |-> s[CHOOSE i \in 1..Len(s) : Rank(i) = p]]

\* the list both phases build: [{name: descr}] for the dealt catalog roles
PhaseRoles(dealt) ==
    LET present == SelectSeq(available_roles, LAMBDA e : e[1] \in dealt)
    IN  [i \in 1..Len(present) |-> (present[i][1] :> present[i][2])]
\* list(role)[0]
RoleName(role) == CHOOSE name \in DOMAIN role : TRUE
\* night: roles.sort(key=lambda x: str(x.get("order", "100")))
NightKey(role) == Get(role, "order", "100")
NightRoles(dealt) ==
    LET roles == PhaseRoles(dealt)
    IN  SortBy(roles, [i \in 1..Len(roles) |-> NightKey(roles[i])])
\* night: role.get("synchro")
NightSynchro(role) == Get(role, "synchro", None)

(***************************************************************************)
(* Game.swap_roles                                                         *)
(***************************************************************************)
\* python's tuple assignment cur[a], cur[b] = cur[b], cur[a]
SwapOneInTurn(cur, sw) ==
    LET c1 == [cur EXCEPT ![sw[1]] = cur[sw[2]]]
    IN  [c1 EXCEPT ![sw[2]] = c1[sw[1]]]
SwapOne(cur, sw) == [cur EXCEPT ![sw[1]] = cur[sw[2]], ![sw[2]] = cur[sw[1]]]

\* a swap naming a nick with no role raises KeyError
SwapRaises(cur, sw) == sw[1] \notin DOMAIN cur \/ sw[2] \notin DOMAIN cur

\* the assignment left by swap_roles; it stops at the first swap that raises
RECURSIVE swap_roles(_, _)
swap_roles(cur, switches) ==
    IF switches = <<>> \/ SwapRaises(cur, Head(switches)) THEN cur
    ELSE swap_roles(SwapOne(cur, Head(switches)), Tail(switches))

\* whether swap_roles(cur, switches) raises
RECURSIVE swap_roles_raises(_, _)
swap_roles_raises(cur, switches) ==
    /\ switches # <<>>
    /\ \/ SwapRaises(cur, Head(switches))
       \/ swap_roles_raises(SwapOne(cur, Head(switches)), Tail(switches))

(***************************************************************************)
(* Game.game: entry, guards and dealing (lines 417-444)                    *)
(***************************************************************************)
\* the guards of game(), in the order of the code
game_guard_unguarded(nb, cap, busy) ==
    IF nb < 6 THEN "few" ELSE IF nb > cap THEN "many" ELSE "start"
game_guard(nb, cap, busy) ==
    IF nb < 6 THEN "few"
    ELSE IF nb > cap THEN "many"
    ELSE IF busy THEN "busy"
    ELSE "start"

\* a call of game(), possible while fewer than limit rounds have been played
\* to the end
start(limit) ==
    /\ IF game_guard(Len(players), SumValues(max_role_nb), in_progress) # "start"
       THEN UNCHANGED <<roster, scenario, max_role_nb, roles_state, round_state>>
       ELSE /\ rounds < limit
            /\ in_progress' = TRUE
            /\ \E o \in deal_roles(players, scenario) :
                 IF o.err
                 THEN \* ValueError leaves game(): nothing after line 443 runs
                      /\ pc' = "idle"
                      /\ UNCHANGED <<tokens, roles_state>>
                 ELSE /\ selected_roles' = o.selected
                      /\ initial_roles' = o.initial
                      /\ current_roles' = o.initial
                      /\ dealt_roles' = {o.initial[k] : k \in DOMAIN o.initial}
                      /\ tokens' = DealTokens(tokens, players)
                      /\ pc' = "dawn"
            /\ UNCHANGED <<players, scenario, max_role_nb, votes, dead, tasks,
                           role_swaps, token_swaps, victories, run, choice,
                           ending, ni, rounds, notice>>

game == start(MaxRounds)

(***************************************************************************)
(* Role callbacks (registered with Game.add_role)                          *)
(***************************************************************************)
\* A callback either ends without asking anybody (it settles before anything
\* else can happen) or waits for its player's answer and then settles as st,
\* appending swap to role_swaps (<<>>: it appends nothing) and tswaps to
\* token_swaps.  With st "asked" it has not settled: it waits for one more
\* answer.
Outcome(st, swap) == [st |-> st, swap |-> swap, tswaps |-> <<>>]
TokenOutcome(st, tswaps) == [st |-> st, swap |-> <<>>, tswaps |-> tswaps]
Ends(st) == [waits |-> FALSE, outcomes |-> {Outcome(st, <<>>)}]
Asks(outcomes) == [waits |-> TRUE, outcomes |-> outcomes]

\* voleur(game, phase, synchro)
voleur(phase) ==
    IF phase # "night" THEN Ends("done")
    ELSE LET v == get_player_nick({"voleur"}, initial_roles, TRUE)
         IN  IF v = <<>> THEN Ends("done")
             ELSE IF Len(v) = 2 THEN Ends("failed")      \* activated.add(list)
             ELSE Asks({Outcome("done", <<v[1], c>>) :
                          c \in Range(Drop(players, 3)) \ {v[1]}})

\* soulard(game, phase, synchro)
soulard(phase) ==
    IF phase # "night" THEN Ends("done")
    ELSE LET so == get_player_nick({"soulard"}, initial_roles, TRUE)
         IN  IF so = <<>> THEN Ends("done")
             ELSE IF Len(so) = 2 THEN Ends("failed")
             ELSE Asks({Outcome("done", <<so[1], c>>) : c \in {"0", "1", "2"}})

\* voyante(game, phase, synchro): looks at cards, changes nothing
voyante(phase) ==
    IF phase # "night" THEN Ends("done")
    ELSE LET vo == get_player_nick({"voyante"}, initial_roles, TRUE)
         IN  IF vo = <<>> THEN Ends("done")
             ELSE IF Len(vo) = 2 THEN Ends("failed")
             ELSE Asks({Outcome("done", <<>>)})

\* loup_garou(game, phase, synchro): a lone wolf is asked for a center card
loup_garou(phase) ==
    IF phase # "night" THEN Ends("done")
    ELSE LET loups == get_player_nick({"loup alpha", "loup garou", "loup shaman"},
                                      initial_roles, TRUE)
             loup_reveur == get_player_nick({"loup rêveur"}, initial_roles, TRUE)
         IN  IF Len(loups) = 1 /\ loup_reveur = <<>>
             THEN Asks({Outcome("done", <<>>)})
             ELSE Ends("done")

\* the answers the model lets a player give when asked for a real player
Answers == Range(Take(Drop(players, 3), MaxTargets))
\* the answers the model lets a player give when asked for a center card
CardAnswers == Range(Take(players, Min(MaxCards, 3)))

\* assassin(game, phase, synchro="-1"): the mark goes to the chosen player
assassin(phase) ==
    IF phase # "dawn" THEN Ends("done")
    ELSE LET assa == get_player_nick({"assassin"}, initial_roles, FALSE)
         IN  IF assa = <<>> THEN Ends("done")
             ELSE Asks({TokenOutcome(IF Len(assa) = 2 THEN "failed" ELSE "done",
                                     << <<"-1", "assassin", c>> >>) :
                          c \in Range(Drop(players, 3)) \cap Answers})

\* cupidon(game, phase, synchro="-4"): "aucun" ends it, a first lover is
\* queued and the second lover is asked for
cupidon(phase) ==
    IF phase # "dawn" THEN Ends("done")
    ELSE LET cup == get_player_nick({"cupidon"}, initial_roles, FALSE)
         IN  IF cup = <<>> THEN Ends("done")
             ELSE Asks({TokenOutcome("done", <<>>)}
                       \cup (IF Len(cup) = 2 THEN {TokenOutcome("failed", <<>>)}
                             ELSE {TokenOutcome("asked", << <<"-4", "amour 0", c>> >>) :
                                     c \in CardAnswers}))
\* cupidon after its first append: the second lover
cupidon_second ==
    Asks({TokenOutcome("done", << <<"-4", "amour 1", c>> >>) : c \in CardAnswers})

\* Game._role_callbacks[name](game, phase=..., synchro=...): garde du corps
\* and insomniaque act by day only, tanneur and villageois pass
role_callback(name, phase) ==
    CASE name = "voleur" -> voleur(phase)
      [] name = "soulard" -> soulard(phase)
      [] name = "voyante" -> voyante(phase)
      [] name = "loup garou" -> loup_garou(phase)
      [] name = "assassin" -> assassin(phase)
      [] name = "cupidon" -> cupidon(phase)
      [] OTHER -> Ends("done")

\* the rest of a callback that has been answered once
role_resumed(name, phase) ==
    CASE name = "cupidon" -> cupidon_second
      [] OTHER -> Ends("done")

\* the state of a role task once the launching coroutine has suspended
Started(name, phase) ==
    LET c == role_callback(name, phase)
    IN  IF c.waits THEN "pending" ELSE (CHOOSE o \in c.outcomes : TRUE).st

\* a launched role task runs to its end
run_task(i) ==
    /\ i \in 1..Len(tasks)
    /\ tasks[i].kind = "role"
    /\ tasks[i].st \in {"pending", "asked"}
    /\ \E o \in (IF tasks[i].st = "pending"
                 THEN role_callback(tasks[i].name, tasks[i].phase)
                 ELSE role_resumed(tasks[i].name, tasks[i].phase)).outcomes :
         /\ tasks' = [tasks EXCEPT ![i].st = o.st]
         /\ role_swaps' = IF o.swap = <<>> THEN role_swaps
                          ELSE Append(role_swaps, o.swap)
         /\ token_swaps' = token_swaps \o o.tswaps
    /\ UNCHANGED <<roster, scenario, max_role_nb, roles_state, votes, dead,
                   in_progress, victories, pc, run, choice,
                   ending, ni, rounds, notice>>

(***************************************************************************)
(* Game.dawn, and game() up to the call of night() (lines 343-367, 452-459)*)
(***************************************************************************)
\* amoureux(game, phase="night"): fails when a lover is already dead
\* (game.dead.add(set(...)))
amoureux_fails ==
    \E nick \in Range(Take(players, 3)) :
        Get(tokens, nick, "clareté") = "amour" /\ nick \in dead

\* tokens[s0], tokens[s1] = tokens[s1], tokens[s0] for every queued swap
RECURSIVE swap_tokens(_, _)
swap_tokens(tk, swaps) ==
    IF swaps = <<>> THEN tk
    ELSE LET s0 == Head(swaps)[2]
             s1 == Head(swaps)[3]
             full == [k \in DOMAIN tk \cup {s0, s1} |-> Get(tk, k, "clareté")]
         IN  swap_tokens([full EXCEPT ![s0] = full[s1], ![s1] = full[s0]],
                         Tail(swaps))
TokenKey(x) == x[1]

\* dawn(): clean_up, then every dealt role is launched with phase="dawn"
dawn_begin ==
    /\ pc = "dawn"
    /\ AllSettled(tasks)
    /\ token_swaps' = <<>>
    /\ LET roles == PhaseRoles(dealt_roles)
       IN  tasks' = tasks \o [i \in 1..Len(roles) |->
                        Task("role", RoleName(roles[i]), "dawn", None,
                             Started(RoleName(roles[i]), "dawn"), i - 1,
                             Len(role_swaps))]
    /\ pc' = "dawn_wait"
    /\ UNCHANGED <<roster, scenario, max_role_nb, roles_state, votes, dead,
                   role_swaps, in_progress, victories, run, choice, ending,
                   ni, rounds, notice>>

\* dawn() after its clean_up: the sorted token swaps; then the token reveal
\* and the lovers' callback of game()
dawn_end ==
    /\ pc = "dawn_wait"
    /\ AllSettled(tasks)
    /\ LET sorted == SortBy(token_swaps,
                            [i \in 1..Len(token_swaps) |-> TokenKey(token_swaps[i])])
       IN  /\ token_swaps' = sorted
           /\ tokens' = swap_tokens(tokens, sorted)
    /\ pc' = IF clean_up_raises(tasks) \/ amoureux_fails THEN "idle" ELSE "night"
    /\ UNCHANGED <<players, scenario, max_role_nb, roles_state, votes, dead,
                   tasks, role_swaps, in_progress, victories, run, choice,
                   ending, ni, rounds, notice>>

(***************************************************************************)
(* Game.night (lines 369-400)                                              *)
(***************************************************************************)
\* the index at which the loop next suspends after launching role i: the next
\* role with a barrier key, or past the end
NextStop(roles, i) ==
    IF \E j \in (i + 1)..Len(roles) : NightSynchro(roles[j]) # None
    THEN CHOOSE j \in (i + 1)..Len(roles) :
            /\ NightSynchro(roles[j]) # None
            /\ \A k \in (i + 1)..(j - 1) : NightSynchro(roles[k]) = None
    ELSE Len(roles) + 1

\* the tasks of roles i..j-1, launched with no suspension in between
Launched(roles, i, j, queued) ==
    [k \in 1..(j - i) |->
        Task("role", RoleName(roles[i + k - 1]), "night",
             NightSynchro(roles[i + k - 1]),
             Started(RoleName(roles[i + k - 1]), "night"), k - 1, queued)]

\* night() entered: the earlier tasks are awaited and dropped, the roles
\* sorted, and the loop runs to its first suspension
night_begin ==
    /\ pc = "night"
    /\ AllSettled(tasks)
    /\ LET roles == NightRoles(dealt_roles)
           barrier == roles # <<>> /\ NightSynchro(roles[1]) # None
           stop == IF roles = <<>> THEN 1 ELSE NextStop(roles, 1)
       IN  /\ current_roles' = IF barrier THEN swap_roles(current_roles, role_swaps)
                               ELSE current_roles
           /\ IF barrier /\ swap_roles_raises(current_roles, role_swaps)
              THEN \* KeyError leaves night() and game()
                   /\ pc' = "idle"
                   /\ tasks' = <<>>
                   /\ UNCHANGED <<role_swaps, ni>>
              ELSE /\ role_swaps' = IF barrier THEN <<>> ELSE role_swaps
                   /\ tasks' = IF roles = <<>> THEN <<>>
                               ELSE Launched(roles, 1, stop,
                                             IF barrier THEN 0 ELSE Len(role_swaps))
                   /\ ni' = stop
                   /\ pc' = "night_loop"
    /\ UNCHANGED <<roster, scenario, max_role_nb, selected_roles, initial_roles,
                   dealt_roles, votes, dead, token_swaps, in_progress,
                   victories, run, choice, ending, rounds, notice>>

\* a clean_up of night() returns: at a barrier role the queue is applied and
\* emptied and the loop goes on; after the last role the queue is applied
night_checkpoint ==
    /\ pc = "night_loop"
    /\ AllSettled(tasks)
    /\ current_roles' = swap_roles(current_roles, role_swaps)
    /\ LET roles == NightRoles(dealt_roles)
       IN  IF clean_up_raises(tasks) \/ swap_roles_raises(current_roles, role_swaps)
           THEN \* KeyError leaves night() and game()
                /\ pc' = "idle"
                /\ UNCHANGED <<role_swaps, tasks, ni>>
           ELSE IF ni <= Len(roles)
           THEN /\ role_swaps' = <<>>
                /\ tasks' = tasks \o Launched(roles, ni, NextStop(roles, ni), 0)
                /\ ni' = NextStop(roles, ni)
                /\ pc' = "night_loop"
           ELSE /\ pc' = "vote"
                /\ UNCHANGED <<role_swaps, tasks, ni>>
    /\ UNCHANGED <<roster, scenario, max_role_nb, selected_roles, initial_roles,
                   dealt_roles, votes, dead, token_swaps, in_progress,
                   victories, run, choice, ending, rounds, notice>>

(***************************************************************************)
(* Game.collect_votes and Game._vote (lines 543-634)                       *)
(***************************************************************************)
\* the ballot tasks launched for players[3:]
Ballots(pl, phase) ==
    LET voters == Drop(pl, 3)
    IN  [i \in 1..Len(voters) |-> Task("vote", voters[i], phase, None, "pending", i - 1, 0)]

\* _vote: the candidates offered to player
Candidates(player, phase) ==
    IF phase = "runoff" THEN choice
    ELSE Range(players) \ {"0", "1", "2", player}

\* _vote returns: the player's answer is recorded
vote_cast(i, target) ==
    /\ i \in 1..Len(tasks)
    /\ tasks[i].kind = "vote"
    /\ tasks[i].st = "pending"
    /\ target \in Candidates(tasks[i].name, tasks[i].phase)
    /\ votes' = [k \in DOMAIN votes \cup {tasks[i].name} |->
                    IF k = tasks[i].name THEN target ELSE votes[k]]
    /\ tasks' = [tasks EXCEPT ![i].st = "done"]
    /\ UNCHANGED <<roster, scenario, max_role_nb, roles_state, dead, role_swaps,
                   token_swaps, in_progress, victories, pc, run, choice,
                   ending, ni, rounds, notice>>

\* collect_votes entered: the night's tasks are awaited and dropped, one
\* ballot task is launched per real player and the first slice starts
collect_votes_begin ==
    /\ pc = "vote"
    /\ AllSettled(tasks)
    /\ tasks' = Ballots(players, "vote")
    /\ run' = 1
    /\ notice' = <<>>
    /\ pc' = "vote_wait"
    /\ UNCHANGED <<roster, scenario, max_role_nb, roles_state, votes, dead,
                   role_swaps, token_swaps, in_progress, victories, choice,
                   ending, ni, rounds>>

\* Counter(votes.values()): ballots per target
Tally(vt) == [t \in {vt[k] : k \in DOMAIN vt} |->
                 Cardinality({k \in DOMAIN vt : vt[k] = t})]

\* garde(game, phase="day"): the nick protected, None, or "raise" (KeyError)
garde ==
    LET g == get_player_nick({"garde du corps"}, current_roles, FALSE)
    IN  IF g = <<>> THEN None
        ELSE IF Len(g) = 1 /\ g[1] \in DOMAIN votes THEN votes[g[1]]
        ELSE "raise"

\* maitre(game, phase="day"): any(votes[player] == maitre for player in vamp)
RECURSIVE AnyVotedFor(_, _)
AnyVotedFor(vamp, maitre_nick) ==
    IF vamp = <<>> THEN None
    ELSE IF Head(vamp) \notin DOMAIN votes THEN "raise"
    ELSE IF votes[Head(vamp)] = maitre_nick THEN maitre_nick
    ELSE AnyVotedFor(Tail(vamp), maitre_nick)
maitre ==
    LET m == get_player_nick({"le maître"}, initial_roles, FALSE)
        vamp == get_player_nick({"vampire", "le comte"}, initial_roles, FALSE)
        marked == SelectSeq(players, LAMBDA nick : Get(tokens, nick, "clareté") = "vampire")
    IN  IF m = <<>> \/ vamp = <<>> THEN None
        ELSE IF Len(m) = 2 THEN "raise"
        ELSE AnyVotedFor(vamp \o marked, m[1])

\* raw_results with the protected players popped, as ballots per target
Results(vt) ==
    LET raw == Tally(vt)
    IN  [t \in DOMAIN raw \ {garde, maitre} |-> raw[t]]
\* the targets holding the highest count of results.most_common()
Top(res) == {t \in DOMAIN res : \A u \in DOMAIN res : res[u] <= res[t]}

\* game(self, timeout=300) hands its timeout to collect_votes
timeout == 300
\* delay = timeout / 5
delay == timeout \div 5

\* for run in range(1, 5) and its test of self.tasks: whether one more slice
\* is waited after slice r
MoreSlicesUncapped(r, tk) == r <= 5 /\ Pending(tk) # <<>>
MoreSlices(r, tk) == r <= 4 /\ Pending(tk) # <<>>

\* "Il manque {} votes et il reste {} secondes."
Reminder(pending, r) == <<"reminder", Len(pending), timeout - delay * r>>
\* "Il y a égalité entre {}. ... Vous avez {} secondes."
TieNotice(tied) == <<"tie", tied, delay>>
\* "Il n'y a pas de mort aujourd'hui." / "Il n'y a pas de mort cette nuit."
NoDeathNotice == <<"no death">>

\* a wait of the first ballot returns (its slice has elapsed or every ballot
\* is in): either a reminder is broadcast and the next slice starts, or the
\* stragglers are cancelled and the ballots are counted
collect_votes_wait ==
    /\ pc = "vote_wait"
    /\ IF MoreSlices(run, tasks)
       THEN /\ tasks' = Pending(tasks)
            /\ run' = run + 1
            /\ notice' = <<Reminder(Pending(tasks), run)>>
            /\ UNCHANGED <<pc, dead, votes, choice>>
       ELSE /\ run' = run
            /\ IF garde = "raise" \/ maitre = "raise"
               THEN \* tsk.result() re-raises: collect_votes and game() end
                    /\ pc' = "idle"
                    /\ tasks' = <<>>
                    /\ notice' = <<>>
                    /\ UNCHANGED <<dead, votes, choice>>
               ELSE LET results == Results(votes)
                    IN  IF DOMAIN results = {}
                        THEN /\ pc' = "victory"
                             /\ tasks' = <<>>
                             /\ notice' = <<NoDeathNotice>>
                             /\ UNCHANGED <<dead, votes, choice>>
                        ELSE IF Cardinality(Top(results)) > 1
                        THEN /\ choice' = Top(results)
                             /\ votes' = EmptyDict
                             /\ tasks' = Ballots(players, "runoff")
                             /\ notice' = <<TieNotice(Top(results))>>
                             /\ pc' = "runoff_wait"
                             /\ UNCHANGED dead
                        ELSE \* the message naming the dead is not sent
                             /\ dead' = Top(results)
                             /\ pc' = "victory"
                             /\ tasks' = <<>>
                             /\ notice' = <<>>
                             /\ UNCHANGED <<votes, choice>>
    /\ UNCHANGED <<roster, scenario, max_role_nb, roles_state, role_swaps,
                   token_swaps, in_progress, victories, ending, ni, rounds>>

\* the wait of the runoff returns: stragglers are cancelled, the ballots are
\* counted, an empty count is announced and collect_votes returns (line 616)
runoff_end ==
    /\ pc = "runoff_wait"
    /\ tasks' = <<>>
    /\ notice' = IF votes = EmptyDict THEN <<NoDeathNotice>> ELSE <<>>
    /\ pc' = "victory"
    /\ UNCHANGED <<roster, scenario, max_role_nb, roles_state, votes, dead,
                   role_swaps, token_swaps, in_progress, victories, run,
                   choice, ending, ni, rounds>>

(***************************************************************************)
(* Game.victory_walker and Game.victory (lines 220-331)                    *)
(***************************************************************************)
\* victory.yaml: the decision graph, node name -> node
victory_tree ==
    ("start" :>
        ("has-dead" :> (TRUE :> "tanneur dead" @@ FALSE :> "no dead"))
     @@ "no dead" :>
        ("bataille épique" :> (TRUE :> "nobody wins" @@ FALSE :> "village wins")
         @@ "exist" :> ("monstres" :> (TRUE :> "monstres win" @@ FALSE :> "village wins")))
     @@ "tanneur dead" :>
        ("dead" :> ("tanneur" :> (TRUE :> "wolf dead too" @@ FALSE :> "wolf dead")))
     @@ "wolf dead too" :>
        ("dead" :> ("loup garou" :> (TRUE :> "village wins" @@ FALSE :> "tanneur wins")))
     @@ "wolf dead" :>
        ("dead" :> ("loup garou" :> (TRUE :> "village wins" @@ FALSE :> "villager dead")))
     @@ "villager dead" :>
        ("dead" :> ("villageois" :> (TRUE :> "village wins" @@ FALSE :> "monstres win"))
         @@ "next" :> "marked")
     @@ "marked" :>
        ("next" :> "monstres win"
         @@ "token" :> ("assassin" :> ("dead" :> "assassin wins" @@ "else" :> "no mark")))
     @@ "no mark" :> ("next" :> "monstres win")
     @@ "assassin wins" :> ("victory" :> "assassin" @@ "next" :> "monstres win")
     @@ "tanneur wins" :> ("victory" :> "tanneur" @@ "end" :> TRUE)
     @@ "village wins" :> ("victory" :> "villageois" @@ "end" :> TRUE)
     @@ "monstres win" :> ("victory" :> "monstres" @@ "end" :> TRUE)
     @@ "nobody wins" :> ("end" :> TRUE))

\* next_step before any check has assigned it
Unbound == "Unbound"
FirstKey(d) == CHOOSE k \in DOMAIN d : TRUE
WalkRaise == [err |-> TRUE, winners |-> {}]

\* the scenario families victory_walker looks for, in the order of its loop
Families == <<"bataille épique", "loups-garous-contre village",
              "vampires contre village">>
FamiliesIn(state) == SelectSeq(Families, LAMBDA fam : fam \in DOMAIN state)

\* the family loop: the first family the node names assigns next_step and
\* ends the loop (the graph of this model gives both outcomes of a family
\* check, so state[fam][...] never raises)
family_check(state) ==
    IF FamiliesIn(state) = <<>> THEN Unbound
    ELSE LET fam == Head(FamiliesIn(state))
             scenar_fam == Get(scenario_dict[scenario], "family", None)
         IN  state[fam][scenar_fam = fam]
\* the else branch of the loop: state = state["classic"] when no family matched
classic(state) ==
    IF FamiliesIn(state) = <<>> /\ "classic" \in DOMAIN state
    THEN state["classic"] ELSE state

\* the checks of a node, each overwriting the next_step assigned before it
has_dead_check(state, before) ==
    IF "has-dead" \in DOMAIN state
    THEN Get(state["has-dead"], dead # {}, None)
    ELSE before
dead_check(state, before) ==
    IF "dead" \in DOMAIN state
    THEN LET check == FirstKey(state["dead"])
             checked_player == get_player_nick({check}, initial_roles, FALSE)
         IN  state["dead"][check][\E pl \in Range(checked_player) : pl \in dead]
    ELSE before
exist_check(state, groups, before) ==
    IF "exist" \in DOMAIN state
    THEN LET group_name == FirstKey(state["exist"])
         IN  state["exist"][group_name][Get(groups, group_name, {}) # {}]
    ELSE before
next_check_keeps(state, before) ==
    IF "next" \in DOMAIN state /\ before = Unbound THEN state["next"] ELSE before
next_check(state, before) ==
    IF "next" \in DOMAIN state THEN state["next"] ELSE before
token_check(state, before) ==
    IF "token" \in DOMAIN state
    THEN LET check == FirstKey(state["token"])
         IN  IF check \in dead THEN state["token"][check]["dead"]
             ELSE state["token"][check]["else"]
    ELSE before

\* next_step when the checks of node state_name have run, in the order of the
\* code; Unbound when no check assigned it
next_step(groups, state_name) ==
    LET state == classic(victory_tree[state_name])
    IN  token_check(state,
          next_check(state,
            exist_check(state, groups,
              dead_check(state,
                has_dead_check(state,
                  family_check(victory_tree[state_name]))))))

\* if "end" in state
is_end_never(state) == FALSE
is_end(state) == "end" \in DOMAIN state

\* victory_walker(groups, state_name, winners).  The graph of this model has
\* no action nodes.
RECURSIVE victory_walker(_, _, _)
victory_walker(groups, state_name, winners) ==
    IF state_name \notin DOMAIN victory_tree THEN WalkRaise
    ELSE
    LET state == classic(victory_tree[state_name])
        won == IF "victory" \in DOMAIN state
               THEN winners \cup {state["victory"]} ELSE winners
    IN  IF is_end(state) THEN [err |-> FALSE, winners |-> won]
        ELSE IF next_step(groups, state_name) = Unbound THEN WalkRaise
        ELSE victory_walker(groups, next_step(groups, state_name), won)

\* the nodes victory_walker(groups, state_name) visits, in order, the running
\* one included; the list stops after fuel nodes
RECURSIVE Visited(_, _, _)
Visited(groups, state_name, fuel) ==
    IF fuel = 0 \/ state_name \notin DOMAIN victory_tree THEN <<>>
    ELSE IF is_end(classic(victory_tree[state_name])) THEN <<state_name>>
    ELSE <<state_name>> \o Visited(groups, next_step(groups, state_name), fuel - 1)

\* victory(): groups of the catalog, group name -> role names
GroupOf(descr) == Get(descr, "group", "villageois")
RoleGroups ==
    [g \in {GroupOf(available_roles[i][2]) : i \in 1..Len(available_roles)} |->
        {available_roles[i][1] : i \in {j \in 1..Len(available_roles) :
                                          GroupOf(available_roles[j][2]) = g}}]

\* victory(): group_member as filled by the loop over the groups, from what
\* _get_player_nick returns for each
GroupBase ==
    [g \in DOMAIN RoleGroups |->
        Range(get_player_nick(RoleGroups[g], initial_roles, FALSE))]

\* victory(): the membership table handed to the walker
GroupMember ==
    LET base == GroupBase
        vamp == SelectSeq(players, LAMBDA pl : Get(tokens, pl, "clareté") = "vampire")
        all == DOMAIN RoleGroups \cup {"monstres"} \cup (IF vamp = <<>> THEN {} ELSE {"vampire"})
        m1 == [g \in all |->
                 IF g = "monstres"
                 THEN Get(base, "monstres", {}) \cup Get(base, "loups garous", {})
                 ELSE Get(base, g, {})]
        m2 == IF vamp = <<>> THEN m1
              ELSE [g \in all |->
                      IF g = "vampire" THEN (m1[g] \ {vamp[1]}) \cup {vamp[1]}
                      ELSE IF g \in DOMAIN RoleGroups THEN m1[g] \ {vamp[1]}
                      ELSE m1[g]]
    IN  [g \in all |->
            IF g = "monstres" THEN m2[g] \cup Get(m2, "vampire", {}) ELSE m2[g]]

\* pestifere(game, phase="day"): the voters against the plague holder; the
\* notice it then sends through game.fire_and_forget raises AttributeError
PesteHolders == {k \in DOMAIN tokens : tokens[k] = "peste"}
pestifere_raises ==
    \/ PesteHolders = {}
    \/ \E nick \in DOMAIN votes : votes[nick] \in PesteHolders

\* victory(): [err, winners, members]; members maps each winning player to
\* the number of times the returned list names it
victory ==
    LET w == victory_walker(GroupMember, "start", {})
    IN  IF w.err \/ pestifere_raises
        THEN [err |-> TRUE, winners |-> {}, members |-> EmptyDict]
        ELSE [err |-> FALSE, winners |-> w.winners,
              members |->
                 [pl \in UNION {Get(GroupMember, g, {}) : g \in w.winners} |->
                     Cardinality({g \in w.winners : pl \in Get(GroupMember, g, {})})]]

(***************************************************************************)
(* Game.game after collect_votes (lines 478-536)                           *)
(***************************************************************************)
\* victory() returns and in_progress is reset; the rest of game() runs later
game_victory ==
    /\ pc = "victory"
    /\ pc' = "idle"
    /\ rounds' = rounds + 1
    /\ IF victory.err
       THEN UNCHANGED <<in_progress, ending>>
       ELSE /\ in_progress' = FALSE
            /\ ending' = Append(ending, victory.members)
    /\ UNCHANGED <<roster, scenario, max_role_nb, roles_state, votes, dead,
                   tasks, role_swaps, token_swaps, victories, run, choice, ni,
                   notice>>

\* the center slot marked as traitor makes the end of game() raise
\* (available_roles[traitre[0]])
traitre_raises ==
    \E nick \in Range(Take(players, 3)) : Get(tokens, nick, "clareté") = "traitre"

\* the end of a game() call: the win counters
game_score ==
    /\ ending # <<>>
    /\ ending' = Tail(ending)
    /\ LET won == Head(ending)
       IN  victories' =
             IF traitre_raises THEN victories
             ELSE [pl \in DOMAIN victories \cup DOMAIN won |->
                      Get(victories, pl, 0) + Get(won, pl, 0)]
    /\ UNCHANGED <<roster, scenario, max_role_nb, roles_state, votes, dead,
                   tasks, role_swaps, token_swaps, in_progress, pc, run,
                   choice, ni, rounds, notice>>

(***************************************************************************)
(* Direct calls of the dealing and swapping methods                        *)
(***************************************************************************)
\* Game.set_scenario(name); an unknown name raises ValueError
set_scenario(name) ==
    /\ IF name \notin DOMAIN scenario_dict
       THEN UNCHANGED <<scenario, max_role_nb>>
       ELSE /\ scenario' = name
            /\ max_role_nb' = ScenarioCaps(name)
    /\ UNCHANGED <<roster, roles_state, round_state>>

\* Game.deal_roles() called outside game(), as the tests and
\* set_random_scenario do
deal ==
    /\ \E o \in deal_roles(players, scenario) :
         IF o.err
         THEN UNCHANGED <<tokens, roles_state>>
         ELSE /\ selected_roles' = o.selected
              /\ initial_roles' = o.initial
              /\ current_roles' = o.initial
              /\ dealt_roles' = {o.initial[k] : k \in DOMAIN o.initial}
              /\ tokens' = DealTokens(tokens, players)
    /\ UNCHANGED <<players, scenario, max_role_nb, round_state>>

\* the participants the model names in a direct swap
Participants == {"0", "1", Nicks[1], Nicks[2], Nicks[Len(Nicks)]}

\* Game.swap_roles([(a, b)])
swap(a, b) ==
    /\ current_roles' = swap_roles(current_roles, <<<<a, b>>>>)
    /\ UNCHANGED <<roster, scenario, max_role_nb, selected_roles, initial_roles,
                   dealt_roles, round_state>>

(***************************************************************************)
(* The kill command of the transport (irc.py lines 331-342)                *)
(***************************************************************************)
\* the users the model lets type the command
Killers == {Nicks[1]}

\* kill(bot, user, message): a valid vote is written straight into Game.votes
kill(user, vote) ==
    /\ IF vote \in Range(players) /\ vote # user
       THEN votes' = [k \in DOMAIN votes \cup {user} |->
                         IF k = user THEN vote ELSE votes[k]]
       ELSE UNCHANGED votes
    /\ UNCHANGED <<roster, scenario, max_role_nb, roles_state, dead, tasks,
                   role_swaps, token_swaps, in_progress, victories, pc, run,
                   choice, ending, ni, rounds, notice>>

(***************************************************************************)
(* Specification                                                           *)
(***************************************************************************)
Next ==
    \/ \E nick \in NickSet : NewNick(nick) /\ add_player(nick)
    \/ \E nick \in Leavers : remove_player(nick)
    \/ game
    \/ dawn_begin
    \/ dawn_end
    \/ night_begin
    \/ night_checkpoint
    \/ \E i \in 1..Len(tasks) : run_task(i)
    \/ \E i \in 1..Len(tasks) : \E target \in Answers : vote_cast(i, target)
    \/ collect_votes_begin
    \/ collect_votes_wait
    \/ runoff_end
    \/ game_victory
    \/ game_score

Spec == Init /\ [][Next]_vars

\* the roster, scenario, dealing and swapping methods called in any order
DealNext ==
    \/ \E nick \in NickSet : NewNick(nick) /\ add_player(nick)
    \/ \E nick \in Leavers : remove_player(nick)
    \/ \E name \in DOMAIN scenario_dict \cup {"Inconnu"} : set_scenario(name)
    \/ deal
    \/ \E a \in Participants : \E b \in Participants : swap(a, b)

DealSpec == Init /\ [][DealNext]_vars

\* the round engine with the kill command typed at any time
KillNext ==
    \/ Next
    \/ \E user \in Killers : \E vote \in Answers : kill(user, vote)

KillSpec == Init /\ [][KillNext]_vars

\* the scenario the model lets the players choose
Chosen == {"Aube"}

\* the round engine with the scenario chosen between rounds
AubeNext ==
    \/ Next
    \/ \E name \in Chosen : ~in_progress /\ set_scenario(name)

AubeSpec == Init /\ [][AubeNext]_vars

\* the scenario the model lets the players choose for a first night
Played == {"Première nuit"}

\* the round engine with scenario Première nuit chosen between rounds
NuitNext ==
    \/ Next
    \/ \E name \in Played : ~in_progress /\ set_scenario(name)

NuitSpec == Init /\ [][NuitNext]_vars

\* list(self.dealer.keys()): the scenarios in file order
available_scenario == <<"Classique", "Aube", "Première nuit", "Anarchie">>

\* the scenarios set_random_scenario tries before one deals: the first tried
\* scenario whose deal does not raise, or all of them
Tried(order) ==
    LET deals(i) == \E o \in deal_roles(players, order[i]) : ~o.err
    IN  IF \E i \in 1..Len(order) : deals(i)
        THEN CHOOSE i \in 1..Len(order) : deals(i) /\ \A j \in 1..(i - 1) : ~deals(j)
        ELSE Len(order)

\* Game.set_random_scenario(), the random_scenario command of the transport:
\* self.scenario is assigned for every scenario tried, and the first deal
\* that does not raise ValueError is kept
set_random_scenario ==
    /\ \E order \in shuffle(available_scenario) :
         LET last == order[Tried(order)]
         IN  /\ scenario' = last
             /\ \E o \in deal_roles(players, last) :
                   IF o.err
                   THEN UNCHANGED <<tokens, roles_state>>
                   ELSE /\ selected_roles' = o.selected
                        /\ initial_roles' = o.initial
                        /\ current_roles' = o.initial
                        /\ dealt_roles' = {o.initial[k] : k \in DOMAIN o.initial}
                        /\ tokens' = DealTokens(tokens, players)
    /\ UNCHANGED <<players, max_role_nb, round_state>>

\* the moment at which the model lets the command be typed: a round has
\* started and its deal is done, dawn() has not been entered
Typed == in_progress /\ pc = "dawn"

\* the round engine with the random_scenario command typed during a round
RandomNext ==
    \/ Next
    \/ Typed /\ set_random_scenario

RandomSpec == Init /\ [][RandomNext]_vars

\* the users of a crowded channel, in the order they ask to join
Crowd == <<"a", "b", "c", "d", "e", "f", "g", "h">>
\* the next user of the crowd to join, or one who has joined before
Newcomer(n) == \A i \in 1..Len(Crowd) :
                  (Crowd[i] \notin DOMAIN tokens
                   /\ \A j \in 1..(i - 1) : Crowd[j] \in DOMAIN tokens)
                  => (n = Crowd[i] \/ n \in DOMAIN tokens)
\* a user whose nickname is the ordinal of a center slot
Ordinals == {"0"}
\* the users who ask to leave
Quitters == {"a", "0"}

\* the roster and scenario methods called in any order before a round
RosterNext ==
    \/ \E nick \in Range(Crowd) : Newcomer(nick) /\ add_player(nick)
    \/ \E nick \in Ordinals : add_player(nick)
    \/ \E nick \in Quitters : remove_player(nick)
    \/ \E name \in DOMAIN scenario_dict : set_scenario(name)

RosterSpec == Init /\ [][RosterNext]_vars

\* the nicknames that register for a rematch
Regulars == NickSet \ Leavers

\* the same players play one round more: game() is called again after a round
\* has been played to the end, and the rematch is followed up to its deal
FirstRound == rounds < MaxRounds
RematchNext ==
    \/ \E nick \in Regulars : NewNick(nick) /\ add_player(nick)
    \/ start(MaxRounds + 1)
    \/ FirstRound /\ dawn_begin
    \/ FirstRound /\ dawn_end
    \/ FirstRound /\ night_begin
    \/ FirstRound /\ night_checkpoint
    \/ FirstRound /\ \E i \in 1..Len(tasks) : run_task(i)
    \/ FirstRound /\ \E i \in 1..Len(tasks) : \E target \in Answers : vote_cast(i, target)
    \/ FirstRound /\ collect_votes_begin
    \/ FirstRound /\ collect_votes_wait
    \/ FirstRound /\ runoff_end
    \/ FirstRound /\ game_victory
    \/ game_score

RematchSpec == Init /\ [][RematchNext]_vars

\* every step of a running round, the players' answers included
RoundStep ==
    \/ dawn_begin
    \/ dawn_end
    \/ night_begin
    \/ night_checkpoint
    \/ \E i \in 1..Len(tasks) : run_task(i)
    \/ \E i \in 1..Len(tasks) : \E target \in Answers : vote_cast(i, target)
    \/ collect_votes_begin
    \/ collect_votes_wait
    \/ runoff_end
    \/ game_victory
    \/ game_score

\* the event loop keeps running the round and every player answers
FairSpec == Init /\ [][Next]_vars /\ WF_vars(RoundStep)

(***************************************************************************)
(* Properties                                                              *)
(***************************************************************************)
\* the values of a dict
Values(d) == {d[k] : k \in DOMAIN d}

\* C1: a call of game() made while in_progress is true changes nothing:
\* players, the dealt, initial and current roles, tokens, votes, dead, both
\* swap queues and in_progress keep their values, so no deal happens.
C1_BusyStartChangesNothing ==
    [][(in_progress /\ game) =>
          UNCHANGED <<players, selected_roles, initial_roles, current_roles,
                      dealt_roles, tokens, votes, dead, role_swaps,
                      token_swaps, in_progress>>]_vars

\* C1 witness: a round is waiting for ballots and game() would be refused
\* by the in_progress guard alone
C1_Witness ==
    /\ in_progress
    /\ pc = "vote_wait"
    /\ game_guard(Len(players), SumValues(max_role_nb), in_progress) = "busy"
    /\ game_guard(Len(players), SumValues(max_role_nb), FALSE) = "start"

\* C2: every round that set in_progress eventually has in_progress false
\* again, whatever failed on the way.
C2_RoundEventuallyIdle == in_progress ~> ~in_progress

\* the roster size is outside the active scenario's player bounds
OutOfBounds ==
    \/ Len(players) - 3 < Get(scenario_dict[scenario], "min_player", 3)
    \/ Len(players) - 3 > Get(scenario_dict[scenario], "max_player", 19)

\* C3: from an idle state whose player count is outside the scenario's
\* bounds no step leaves in_progress true or deals roles.
C3_OutOfBoundsStartRejected ==
    [][(~in_progress /\ OutOfBounds) =>
          (~in_progress' /\ UNCHANGED <<initial_roles, current_roles>>)]_vars

\* C4: the list returned by the dealer holds exactly one role per roster
\* slot (real players plus the three center slots).
C4_DealerReturnsRosterSize ==
    selected_roles # <<>> => Len(selected_roles) = Cardinality(DOMAIN initial_roles)

\* C5: every step that deals leaves no role held in initial_roles by more
\* slots than the cap the active scenario sets for it, the forced mandatory
\* roles included.
C5_DealRespectsCaps ==
    [][initial_roles' # initial_roles =>
          \A r \in Values(initial_roles') :
              Cardinality({k \in DOMAIN initial_roles' : initial_roles'[k] = r})
                  <= CapOf(max_role_nb', r)]_vars

\* C5 witness: a deal whose truncated pool had lost a mandatory role, which
\* was forced back and reached a roster slot
C5_Witness ==
    /\ selected_roles # <<>>
    /\ \A r \in Values(initial_roles) : CapOf(max_role_nb, r) >= 1
    /\ \E m \in Range(get_dealer(scenario_dict[scenario]).mandatory) :
          /\ m \in Values(initial_roles)
          /\ m \notin Range(Take(PossibleRoles(max_role_nb), Len(selected_roles)))

\* C6: after a deal every mandatory role of the scenario is held by some
\* roster slot of initial_roles.
C6_MandatoryRolesDealt ==
    initial_roles # EmptyDict =>
        \A m \in Range(get_dealer(scenario_dict[scenario]).mandatory) :
            m \in Values(initial_roles)

\* C7: once roles are dealt and while the round runs, current_roles and
\* initial_roles have the same keys, which are exactly the players.
C7_RoleKeysArePlayers ==
    (in_progress /\ initial_roles # EmptyDict) =>
        /\ DOMAIN current_roles = DOMAIN initial_roles
        /\ DOMAIN initial_roles = Range(players)

\* C8: swap_roles applied twice with the same pair (a, b) gives back the
\* assignment it started from, for all a and b holding a role (a = b and
\* center slots included).
C8_SwapTwiceRestores ==
    \A a \in DOMAIN current_roles : \A b \in DOMAIN current_roles :
        swap_roles(swap_roles(current_roles, <<<<a, b>>>>), <<<<a, b>>>>)
            = current_roles

\* C8 witness: a swap has been applied, and a player and a center slot hold
\* different roles
C8_Witness ==
    /\ current_roles # initial_roles
    /\ \E a \in DOMAIN current_roles \ {"0", "1", "2"} :
          current_roles[a] # current_roles["0"]

\* C9: the night's role tasks are launched in ascending order of the
\* catalog's order key: no task is launched after one with a larger key.
C9_NightLaunchAscending ==
    LET order(name) ==
            LET i == CHOOSE j \in 1..Len(available_roles) : available_roles[j][1] = name
            IN  Get(available_roles[i][2], "order", "100")
    IN  \A i \in 1..Len(tasks) : \A j \in 1..Len(tasks) :
            (i < j /\ tasks[i].phase = "night" /\ tasks[j].phase = "night")
                => ~StrLess(order(tasks[j].name), order(tasks[i].name))

\* C10: a night task of a role whose catalog entry has a barrier key was
\* launched with that key, with no earlier task of the phase unsettled and
\* with an empty swap queue.
C10_BarrierObserved ==
    LET synchro(name) ==
            LET i == CHOOSE j \in 1..Len(available_roles) : available_roles[j][1] = name
            IN  Get(available_roles[i][2], "synchro", None)
    IN  \A i \in 1..Len(tasks) :
            (tasks[i].phase = "night" /\ synchro(tasks[i].name) # None)
                => /\ tasks[i].synchro = synchro(tasks[i].name)
                   /\ tasks[i].before = 0
                   /\ tasks[i].queued = 0

\* C11: the role swap queue is drained at every checkpoint, the final one
\* included: once night() has returned (the round is at the vote or later)
\* the queue is empty, so no swap can be applied a second time.
C11_QueueDrainedAfterNight ==
    pc \in {"vote", "vote_wait", "runoff_wait", "victory"} => role_swaps = <<>>

\* C14: in the first ballot the collector waits at most five slices of
\* timeout / 5; a reminder is broadcast only when a slice ends with ballots
\* still pending, at most four times (after slices 1..4), and tells the number
\* of pending ballots and timeout - k * timeout / 5; once no ballot is pending
\* no further slice is waited.
C14_SlicesAndReminders ==
    [][/\ (pc' = "vote_wait" => run' \in 1..5)
       /\ (pc = "vote_wait" /\ run' # run)
            => /\ Pending(tasks) # <<>>
               /\ run \in 1..4
               /\ run' = run + 1
               /\ notice' = << <<"reminder", Len(Pending(tasks)),
                                 timeout - run * (timeout \div 5)>> >>
       /\ (notice' # notice /\ \E i \in 1..Len(notice') : notice'[i][1] = "reminder")
            => (pc = "vote_wait" /\ run' = run + 1)
       /\ (pc = "vote_wait" /\ Pending(tasks) = <<>> /\ collect_votes_wait)
            => pc' # "vote_wait"]_vars
\* the fourth reminder has been sent and the fifth slice is being waited
C14_Witness ==
    /\ pc = "vote_wait"
    /\ run = 5
    /\ Pending(tasks) # <<>>
    /\ notice = << <<"reminder", Len(tasks), timeout - 4 * delay>> >>

\* C17: whenever the fifth slice ends with a ballot still pending (the ballot
\* is then cancelled), the step that cancels and counts broadcasts a notice
\* that some players did not vote in time, ahead of any other broadcast.
C17_LateNoticeBroadcast ==
    [][(pc = "vote_wait" /\ run = 5 /\ Pending(tasks) # <<>> /\ pc' # "vote_wait")
          => (notice' # <<>> /\ notice'[1][1] = "late")]_vars

\* C20: when the runoff ends with one target holding strictly more runoff
\* ballots than any other, that target is in dead when collect_votes returns.
C20_RunoffWinnerDies ==
    [][(pc = "runoff_wait" /\ pc' = "victory"
        /\ Cardinality(Top(Tally(votes))) = 1)
          => Top(Tally(votes)) \subseteq dead']_vars

\* C15: the tally counts only ballots returned by ballot tasks that completed
\* during the collection: when the collector stops waiting and counts, a
\* player whose ballot task is still pending (and is cancelled) has no ballot
\* among those counted.
C15_TallyCountsCompletedBallots ==
    [][(pc = "vote_wait" /\ pc' # "vote_wait")
          => \A i \in 1..Len(tasks) :
                tasks[i].st = "pending" => tasks[i].name \notin DOMAIN votes]_vars

\* C13: at the end of dawn the queued token swaps are applied in ascending
\* order of their keys compared as signed numbers: once dawn() has sorted and
\* applied its queue, no swap of the applied list comes before a swap with a
\* numerically smaller key.
C13_TokenSwapsAscendingKeys ==
    LET number == ("-1" :> -1 @@ "-4" :> -4)
    IN  pc # "dawn_wait"
          => \A i \in 1..Len(token_swaps) : \A j \in i..Len(token_swaps) :
                number[token_swaps[i][1]] <= number[token_swaps[j][1]]

C16_VoteTimeoutNotFatal ==
    [][(pc = "vote_wait" /\ Pending(tasks) # <<>> /\ pc' # "vote_wait")
          => pc' \in {"runoff_wait", "victory"}]_vars

\* C18: when exactly one target has the strictly highest number of collected
\* ballots (the ballots of the players whose ballot task completed), the
\* collector opens no runoff and returns with that target in dead, and it adds
\* no other player.
C18_TopCollectedDies ==
    [][LET collected == {k \in DOMAIN votes :
                           \A i \in 1..Len(tasks) :
                              tasks[i].name = k => tasks[i].st # "pending"}
           top == Top(Tally([k \in collected |-> votes[k]]))
       IN  (pc = "vote_wait" /\ pc' # "vote_wait" /\ Cardinality(top) = 1)
             => /\ pc' = "victory"
                /\ top \subseteq dead'
                /\ dead' \ dead \subseteq top]_vars

\* C19: when two or more targets share the highest count of collected ballots
\* (and no protector callback names one of them), exactly one runoff is opened: the ballots are cleared, every real player
\* gets one ballot task whose choices are exactly the tied targets, no
\* reminder is sent, and the first return of the runoff's wait (at most one
\* slice) cancels what is pending and ends collect_votes.
C19_TieOpensOneRunoff ==
    [][LET top == Top(Tally(votes))
           NoReminder == \A i \in 1..Len(notice') : notice'[i][1] # "reminder"
       IN  /\ (pc = "vote_wait" /\ pc' # "vote_wait" /\ Cardinality(top) > 1
               /\ garde \notin top /\ maitre \notin top)
                => /\ pc' = "runoff_wait"
                   /\ votes' = EmptyDict
                   /\ choice' = top
                   /\ tasks' = Ballots(players, "runoff")
                   /\ NoReminder
           /\ pc = "runoff_wait"
                => /\ \A i \in 1..Len(tasks) :
                         /\ tasks[i].kind = "vote"
                         /\ Candidates(tasks[i].name, tasks[i].phase) = choice
                   /\ NoReminder
                   /\ pc' # pc => (pc' = "victory" /\ tasks' = <<>>)]_vars


\* C21: collect_votes kills nobody in its no-decision cases, and broadcasts
\* the "no death" notice in each of them: the first ballot is counted with no
\* ballot collected, or the runoff ends with no ballot or with its top
\* candidates tied.
C21_NoDecisionNoDeath ==
    [][/\ (pc = "vote_wait" /\ pc' # "vote_wait" /\ votes = EmptyDict)
            => (dead' = dead /\ notice' = <<NoDeathNotice>>)
       /\ (pc = "runoff_wait" /\ pc' # "runoff_wait"
           /\ (votes = EmptyDict \/ Cardinality(Top(Tally(votes))) > 1))
            => (dead' = dead /\ notice' = <<NoDeathNotice>>)]_vars


\* C22: while a round runs every ballot recorded in votes, in the first
\* ballot and in the runoff, has a real player as voter and as target a real
\* player other than the voter.
C22_BallotsNameOtherRealPlayers ==
    in_progress =>
        \A k \in DOMAIN votes :
            /\ k \in Range(Drop(players, 3))
            /\ votes[k] \in Range(Drop(players, 3))
            /\ votes[k] # k


\* C23: the DeathSet is reset at the start of every round: the step of game()
\* that begins a round (it sets in_progress and deals) leaves dead empty, so
\* no death of an earlier round is seen by the later round.
C23_DeadResetAtRoundStart ==
    [][(~in_progress /\ in_progress') => dead' = {}]_vars


\* the successors a node of the decision graph names, over all its checks
Successors(state) ==
    UNION {
      {state[fam][b] : b \in BOOLEAN} : fam \in Range(FamiliesIn(state)) }
    \cup (IF "has-dead" \in DOMAIN state
          THEN {state["has-dead"][b] : b \in BOOLEAN} ELSE {})
    \cup (IF "dead" \in DOMAIN state
          THEN {state["dead"][FirstKey(state["dead"])][b] : b \in BOOLEAN} ELSE {})
    \cup (IF "exist" \in DOMAIN state
          THEN {state["exist"][FirstKey(state["exist"])][b] : b \in BOOLEAN} ELSE {})
    \cup (IF "next" \in DOMAIN state THEN {state["next"]} ELSE {})
    \cup (IF "token" \in DOMAIN state
          THEN {state["token"][FirstKey(state["token"])][o] : o \in {"dead", "else"}}
          ELSE {})
\* the nodes reached from the nodes of from in exactly k steps
RECURSIVE StepsAway(_, _)
StepsAway(from, k) ==
    IF k = 0 THEN from
    ELSE StepsAway(UNION {Successors(victory_tree[n]) : n \in from}, k - 1)
\* the graph is well-formed: every node that is not terminal names a
\* successor, every successor is a node, and no path is longer than the graph
WellFormed ==
    /\ \A n \in DOMAIN victory_tree :
          /\ Successors(victory_tree[n]) \subseteq DOMAIN victory_tree
          /\ "end" \in DOMAIN victory_tree[n] \/ Successors(victory_tree[n]) # {}
    /\ StepsAway(DOMAIN victory_tree, Cardinality(DOMAIN victory_tree)) = {}

LastCheckSuccessors(state) ==
    IF "token" \in DOMAIN state
    THEN {state["token"][FirstKey(state["token"])][o] : o \in {"dead", "else"}}
    ELSE IF "next" \in DOMAIN state THEN {state["next"]}
    ELSE IF "exist" \in DOMAIN state
    THEN {state["exist"][FirstKey(state["exist"])][b] : b \in BOOLEAN}
    ELSE IF "dead" \in DOMAIN state
    THEN {state["dead"][FirstKey(state["dead"])][b] : b \in BOOLEAN}
    ELSE IF "has-dead" \in DOMAIN state
    THEN {state["has-dead"][b] : b \in BOOLEAN}
    ELSE IF FamiliesIn(state) # <<>>
    THEN {state[Head(FamiliesIn(state))][b] : b \in BOOLEAN}
    ELSE {}

\* C25: at every node the walker visits, the pointer it follows was assigned
\* by the check that comes last in the order family, has-dead, dead, exist,
\* next, token: a node with a death branch and a "next" continues at "next",
\* a node with "next" and a token check continues at a successor of the token
\* check.
C25_LastCheckAssignsPointer ==
    pc = "victory" =>
        LET path == Visited(GroupMember, "start", Cardinality(DOMAIN victory_tree))
        IN  \A i \in 1..Len(path) :
               ~is_end(victory_tree[path[i]])
                 => next_step(GroupMember, path[i])
                       \in LastCheckSuccessors(victory_tree[path[i]])
\* the walk goes through the node that has a death branch and a "next", then
\* through the node that has a "next" and a token check, where it leaves by
\* the token check's successor
C25_Witness ==
    /\ pc = "victory"
    /\ LET path == Visited(GroupMember, "start", Cardinality(DOMAIN victory_tree))
       IN  \E i \in 1..(Len(path) - 2) :
              /\ path[i] = "villager dead"
              /\ {"dead", "next"} \subseteq DOMAIN victory_tree[path[i]]
              /\ path[i + 1] = "marked"
              /\ {"next", "token"} \subseteq DOMAIN victory_tree[path[i + 1]]
              /\ path[i + 2] # victory_tree["marked"]["next"]


\* C26: at every node with a token check that the walker visits, it takes
\* the "dead" successor exactly when the player who currently holds that
\* token is in dead, and the "else" successor otherwise.
C26_TokenHolderDeathBranches ==
    pc = "victory" =>
        LET path == Visited(GroupMember, "start", Cardinality(DOMAIN victory_tree))
        IN  \A i \in 1..Len(path) :
               "token" \in DOMAIN victory_tree[path[i]]
                 => LET branch == victory_tree[path[i]]["token"]
                        check == FirstKey(branch)
                        holders == {pl \in Range(Drop(players, 3)) :
                                       Get(tokens, pl, "clareté") = check}
                    IN  next_step(GroupMember, path[i])
                           = IF holders \cap dead # {} THEN branch[check]["dead"]
                             ELSE branch[check]["else"]


\* C27: for every group of the catalog, the membership table victory() builds
\* before the token overlay holds exactly the real players whose role belongs
\* to the group, however many they are.
C27_GroupTableExact ==
    pc = "victory" =>
        \A g \in DOMAIN RoleGroups :
            GroupBase[g] = {pl \in Range(Drop(players, 3)) :
                               /\ pl \in DOMAIN initial_roles
                               /\ initial_roles[pl] \in RoleGroups[g]}


\* C28: when victory() runs with the player who holds the role tanneur in
\* dead and no holder of a wolf role in dead, it returns exactly {tanneur} as
\* the winning factions; with a wolf dead as well the tanneur does not win.
C28_DeadTanneurWinsAlone ==
    pc = "victory" =>
        LET Holders(role) == {pl \in Range(Drop(players, 3)) :
                                 /\ pl \in DOMAIN current_roles
                                 /\ current_roles[pl] = role}
            tanneur_dead == Holders("tanneur") \cap dead # {}
            wolf_dead == Holders("loup garou") \cap dead # {}
        IN  /\ (tanneur_dead /\ ~wolf_dead)
                 => (~victory.err /\ victory.winners = {"tanneur"})
            /\ (tanneur_dead /\ wolf_dead) => "tanneur" \notin victory.winners


\* C29: add_player(nick) leaves the roster unchanged whenever nick is already
\* in the roster, so the roster never holds a nickname twice, the ordinals of
\* the center slots included.
C29_NoNicknameTwice ==
    [][/\ \A nick \in Range(players) : add_player(nick) => players' = players
       /\ \A i \in 1..Len(players') : \A j \in 1..Len(players') :
             i # j => players'[i] # players'[j]]_vars

\* C30: after any sequence of add_player, remove_player and set_scenario the
\* roster, center slots included, is no larger than the sum of the role caps
\* of the active scenario, and add_player on a full roster changes nothing.
C30_RosterWithinCaps ==
    [][/\ Len(players') <= SumValues(max_role_nb')
       /\ \A nick \in Range(Crowd) :
             (Len(players) >= SumValues(max_role_nb) /\ add_player(nick))
                => players' = players]_vars


\* C31: remove_player called while a round is in progress leaves the roster
\* unchanged: the nickname it names is still a player afterwards.
C31_RemoveRefusedInRound ==
    [][\A nick \in Leavers :
          (in_progress /\ remove_player(nick))
             => /\ players' = players
                /\ nick \in Range(players) => nick \in Range(players')]_vars
\* a round is running with a player in it whom the transport asks to remove
C31_Witness ==
    /\ in_progress
    /\ pc = "vote_wait"
    /\ Leavers \cap Range(players) # {}


\* C32: add_player called while a round is in progress is refused: it leaves
\* the roster and the token map unchanged, so nobody joins between the deal
\* and the end of the round.
C32_AddRefusedInRound ==
    [][\A nick \in NickSet :
          (in_progress /\ add_player(nick)) => UNCHANGED <<players, tokens>>]_vars


\* C33: within a round the steps come in the order deal, dawn, token reveal,
\* night, vote, victory resolution: each position of game() is entered from
\* the one before it; the vote opens only when every night role task has
\* settled and the final swap pass of the night has been applied, ballot
\* tasks exist only while votes are collected, and victory is computed only
\* once collect_votes has returned.
C33_StepsInOrder ==
    [][/\ (pc' = "dawn" /\ pc # "dawn") => (pc = "idle" /\ in_progress')
       /\ (pc' = "dawn_wait" /\ pc # "dawn_wait") => pc = "dawn"
       /\ (pc' = "night" /\ pc # "night")
            => (pc = "dawn_wait" /\ Pending(tasks) = <<>>)
       /\ (pc' = "night_loop" /\ pc # "night_loop") => pc = "night"
       /\ (pc' = "vote" /\ pc # "vote")
            => /\ pc = "night_loop"
               /\ Pending(tasks) = <<>>
               /\ ni > Len(NightRoles(dealt_roles))
               /\ current_roles' = swap_roles(current_roles, role_swaps)
       /\ (pc' = "vote_wait" /\ pc # "vote_wait")
            => (pc = "vote" /\ Pending(tasks) = <<>>)
       /\ (pc' = "runoff_wait" /\ pc # "runoff_wait") => pc = "vote_wait"
       /\ (pc' = "victory" /\ pc # "victory") => pc \in {"vote_wait", "runoff_wait"}
       /\ rounds' # rounds => pc = "victory"
       /\ (\E i \in 1..Len(tasks') : tasks'[i].kind = "vote")
            => pc' \in {"vote_wait", "runoff_wait"}]_vars
\* ballots are being collected after a night whose swap pass changed a role
C33_Witness ==
    /\ pc = "vote_wait"
    /\ current_roles # initial_roles
    /\ \E i \in 1..Len(tasks) : tasks[i].kind = "vote" /\ tasks[i].st = "pending"


\* C34: one round is active at a time through its whole lifecycle:
\* in_progress stays true until the win counters of the round are updated, so
\* no call of game() begins dealing while the score update of the previous
\* round is still to come.
C34_NoDealBeforeScoreUpdate ==
    [][(~in_progress /\ in_progress') => ending = <<>>]_vars


\* the orders in which the answers that filled queue q can arrive
QueueOrders(q) ==
    LET n == Len(q)
        orders == {f \in [1..n -> 1..n] : \A i, j \in 1..n : f[i] = f[j] => i = j}
    IN  {[i \in 1..n |-> q[f[i]]] : f \in orders}

\* C36: for a fixed deal and fixed choices the roles held at the end of the
\* night are the same for every order in which the answers arrive: applying
\* the queued swaps in any other arrival order gives the assignment night()
\* leaves, also when two queued swaps share a participant.
C36_NightOrderIndependent ==
    [][(pc = "night_loop" /\ pc' = "vote")
         => \A q \in QueueOrders(role_swaps) :
               current_roles' = swap_roles(current_roles, q)]_vars


\* the queues of at most two swaps among a center slot, the first and the
\* last nickname
SwapQueues ==
    LET trio == {"0", Nicks[1], Nicks[Len(Nicks)]}
        pairs == trio \X trio
    IN  {<<>>} \cup {<<p>> : p \in pairs} \cup {<<p, q>> : p \in pairs, q \in pairs}

\* whether assignment new holds the roles of old, each as many times, under
\* the same keys
Permutes(old, new) ==
    /\ DOMAIN new = DOMAIN old
    /\ \A r \in {old[k] : k \in DOMAIN old} \cup {new[k] : k \in DOMAIN new} :
          Cardinality({k \in DOMAIN new : new[k] = r})
             = Cardinality({k \in DOMAIN old : old[k] = r})

\* C37: applying any queue of role swaps with swap_roles only permutes
\* current_roles (same keys, same roles as many times each): so it is for
\* every queue applied to every assignment the program comes to hold; and a
\* call of swap_roles leaves initial_roles, tokens, players and dead as they
\* were.
C37_SwapRolesOnlyPermutes ==
    /\ [](\A q \in SwapQueues :
             Permutes(current_roles, swap_roles(current_roles, q)))
    /\ [][\A a \in Participants : \A b \in Participants :
             swap(a, b) => /\ Permutes(current_roles, current_roles')
                           /\ UNCHANGED <<initial_roles, tokens, players, dead>>]_vars

\* a call of swap_roles has exchanged the differing roles of two participants
\* after the deal
C37_Witness ==
    /\ initial_roles # <<>>
    /\ \E a \in Participants : \E b \in Participants :
          /\ a \in DOMAIN current_roles /\ b \in DOMAIN current_roles
          /\ initial_roles[a] # initial_roles[b]
          /\ current_roles = SwapOne(initial_roles, <<a, b>>)


\* C38: a nickname removed with remove_player while no round is in progress
\* can be registered again: right after the removal, unless the roster is
\* full, add_player with the same nickname can put it in the roster again.
C38_RemovedCanRejoin ==
    [][\A nick \in Quitters :
          (/\ ~in_progress
           /\ nick \in Range(players)
           /\ remove_player(nick)
           /\ Len(players') < SumValues(max_role_nb'))
             => (ENABLED (add_player(nick) /\ nick \in Range(players')))']_vars


\* C39: while a round is in progress the random_scenario command changes
\* nothing: set_random_scenario called mid-round leaves the scenario, the
\* initial and current role assignments and the tokens as they were.
C39_RandomScenarioRefusedInRound ==
    [][(in_progress /\ set_random_scenario)
          => UNCHANGED <<scenario, initial_roles, current_roles, tokens>>]_vars


\* C40: victory resolution uses the role each player holds after the night
\* swaps: when victory() runs, a real player whose role was exchanged is
\* listed in the membership table only under the group of the role now held,
\* and a role-death check of the walker answers whether a player now holding
\* the role is dead (for a role held by one or two real players).
C40_VictoryUsesCurrentRoles ==
    pc = "victory" =>
        LET real == Range(Drop(players, 3)) \cap DOMAIN current_roles
            Holders(role) == {pl \in real : current_roles[pl] = role}
        IN  /\ \A pl \in real : \A g \in DOMAIN RoleGroups :
                  (current_roles[pl] # initial_roles[pl] /\ pl \in GroupBase[g])
                     => current_roles[pl] \in RoleGroups[g]
            /\ \A n \in DOMAIN victory_tree :
                  "dead" \in DOMAIN victory_tree[n]
                     => LET check == FirstKey(victory_tree[n]["dead"])
                        IN  Cardinality(Holders(check)) \in {1, 2}
                              => dead_check(victory_tree[n], Unbound)
                                   = victory_tree[n]["dead"][check]
                                        [Holders(check) \cap dead # {}]

====
